---------------------------- MODULE Spec2Model ----------------------------
(***************************************************************************)
(* Model of medibot's SymptomMatcher (src/medibot/model.py).               *)
(*                                                                         *)
(* Python strings are TLA+ strings; substring, lower-casing and replace    *)
(* are computed character by character.  Python lists are sequences,       *)
(* Python sets are sets, dicts whose iteration order matters are           *)
(* sequences of entries in insertion order.  Floating-point scores are     *)
(* exact rationals <<num, den>> (value num/den), compared by               *)
(* cross-multiplication.                                                   *)
(***************************************************************************)
EXTENDS Integers, Sequences, FiniteSets, TLC

VARIABLES
    diseases_data,      \* the corpus the matchers were built from
    symptom_keywords,   \* the vocabulary set built at construction
    kwOrder,            \* per program run: the iteration order of symptom_keywords
    extracted,          \* per program run: the last extract_symptoms call
    matched,            \* the last match_disease call
    scored,             \* the last direct _calculate_match_score call
    looked,             \* the last get_disease_info call
    calls,              \* the matcher's calls made so far in one run, by argument
    db,                 \* the application's tables, for one user on one day
    env,                \* the deployment: the user's plan, the server's time zone
                        \* and the ORM's handling of JSON values changed in place
    now,                \* the UTC clock, one tick per request step
    last,               \* the last request handled and its reply
    failures,           \* the number of requests that ended in an exception
    reqs,               \* two chat requests handled at the same time
    localized,          \* the last get_localized_text call
    user,               \* the user's row: plan and language
    subscription_plans, \* the rows of the subscription_plans table
    replied             \* the last process_user_message call and its reply

\* the application's variables
appVars == <<db, env, now, last, failures, reqs, localized, user, subscription_plans,
            replied>>

\* the user's row, the plans and the reply built from them
planVars == <<user, subscription_plans, replied>>

\* the matcher's variables
matcherVars == <<diseases_data, symptom_keywords, kwOrder, extracted, matched, scored,
                 looked, calls>>

\* the variables the three matcher specifications leave alone
restVars == <<looked, calls, appVars>>

vars == <<diseases_data, symptom_keywords, kwOrder, extracted, matched, scored,
          restVars>>

----------------------------------------------------------------------------
(* Strings *)

UpperLetters == "ABCDEFGHIJKLMNOPQRSTUVWXYZ"
LowerLetters == "abcdefghijklmnopqrstuvwxyz"

\* the lower-case letter of every upper-case letter
ToLower ==
    [c \in {SubSeq(UpperLetters, i, i) : i \in 1..Len(UpperLetters)} |->
        LET i == CHOOSE j \in 1..Len(UpperLetters) : SubSeq(UpperLetters, j, j) = c
        IN  SubSeq(LowerLetters, i, i)]

\* str.lower() on one character
LowerChar(c) == IF c \in DOMAIN ToLower THEN ToLower[c] ELSE c

RECURSIVE Lower(_)
\* str.lower()
Lower(s) ==
    IF Len(s) = 0 THEN s
    ELSE LowerChar(SubSeq(s, 1, 1)) \o Lower(SubSeq(s, 2, Len(s)))

\* Python's  needle in hay  on strings (the empty needle is in every string)
Contains(hay, needle) ==
    \E i \in 0..(Len(hay) - Len(needle)) :
        SubSeq(hay, i + 1, i + Len(needle)) = needle

RECURSIVE Replace(_, _, _)
\* str.replace(old, new) for a non-empty old: leftmost, non-overlapping
Replace(s, old, new) ==
    IF Len(s) < Len(old) THEN s
    ELSE IF SubSeq(s, 1, Len(old)) = old
         THEN new \o Replace(SubSeq(s, Len(old) + 1, Len(s)), old, new)
         ELSE SubSeq(s, 1, 1) \o Replace(SubSeq(s, 2, Len(s)), old, new)

\* Python's  x in list
InList(x, list) == \E i \in 1..Len(list) : list[i] = x

\* the elements of a list
Range(list) == {list[i] : i \in 1..Len(list)}

----------------------------------------------------------------------------
(* The fixed tables of model.py, in dict insertion order *)

symptom_synonyms == <<
    <<"temperature", "fever">>,
    <<"runny nose", "nasal congestion">>,
    <<"stuffy nose", "nasal congestion">>,
    <<"stomach ache", "stomach pain">>,
    <<"tummy ache", "stomach pain">>,
    <<"belly ache", "stomach pain">>,
    <<"sick", "nausea">>,
    <<"throwing up", "vomiting">>,
    <<"sneezing", "sneeze">>,
    <<"coughing", "cough">>,
    <<"tired", "fatigue">>,
    <<"exhausted", "fatigue">>,
    <<"drowsy", "fatigue">> >>

symptom_patterns == <<
    [symptom |-> "fever",        patterns |-> <<"hot", "temperature", "feverish", "burning up">>],
    [symptom |-> "headache",     patterns |-> <<"head hurts", "head pain", "migraine">>],
    [symptom |-> "stomach pain", patterns |-> <<"stomach hurts", "belly pain", "tummy pain", "stomach ache">>],
    [symptom |-> "sore throat",  patterns |-> <<"throat hurts", "painful throat", "throat pain">>],
    [symptom |-> "cough",        patterns |-> <<"coughing", "hacking">>],
    [symptom |-> "nausea",       patterns |-> <<"feel sick", "queasy", "sick to stomach">>],
    [symptom |-> "fatigue",      patterns |-> <<"tired", "exhausted", "weak", "no energy">>],
    [symptom |-> "runny nose",   patterns |-> <<"stuffy nose", "blocked nose", "congested">>],
    [symptom |-> "sneezing",     patterns |-> <<"sneezing", "achoo">>],
    [symptom |-> "chills",       patterns |-> <<"cold", "shivering", "shaking">>] >>

synonym_map == <<
    [canonical |-> "fever",        synonyms |-> <<"temperature", "hot", "feverish">>],
    [canonical |-> "headache",     synonyms |-> <<"head pain", "migraine">>],
    [canonical |-> "stomach pain", synonyms |-> <<"stomach ache", "belly pain", "abdominal pain">>],
    [canonical |-> "sore throat",  synonyms |-> <<"throat pain", "painful throat">>],
    [canonical |-> "runny nose",   synonyms |-> <<"nasal congestion", "stuffy nose">>],
    [canonical |-> "fatigue",      synonyms |-> <<"tired", "exhausted", "weakness">>],
    [canonical |-> "nausea",       synonyms |-> <<"sick", "queasy">>],
    [canonical |-> "chills",       synonyms |-> <<"cold", "shivering">>] >>

----------------------------------------------------------------------------
(* Corpora: a disease record may lack the 'symptoms' key (dict.get covers   *)
(* it at construction, disease['symptoms'] raises KeyError in matching)     *)

ColdCorpus == <<
    [disease |-> "Common Cold", symptoms |-> <<"cough", "runny nose", "sore throat">>] >>

TieCorpus == <<
    [disease |-> "Tension", symptoms |-> <<"headache", "chills", "nausea">>],
    [disease |-> "Flu",     symptoms |-> <<"headache", "fever">>],
    [disease |-> "Heat",    symptoms |-> <<"fever", "headache">>] >>

WideCorpus == <<
    [disease |-> "Viral Fever",
     symptoms |-> <<"headache", "fever", "cough", "fatigue", "nausea">>],
    [disease |-> "Idle", symptoms |-> << >>] >>

BlankCorpus == <<
    [disease |-> "Blank", symptoms |-> <<"", " ">>] >>

UpperCorpus == <<
    [disease |-> "Strain", symptoms |-> <<"Back Pain", "Headache">>] >>

BrokenCorpus == <<
    [disease |-> "Broken"] >>

EmptyCorpus == << >>

Corpora == {ColdCorpus, TieCorpus, WideCorpus, BlankCorpus, UpperCorpus,
            BrokenCorpus, EmptyCorpus}

\* every record carries the 'symptoms' list that match_disease indexes
WellFormed(corpus) == \A i \in 1..Len(corpus) : "symptoms" \in DOMAIN corpus[i]

----------------------------------------------------------------------------
(* Construction *)

\* disease.get('symptoms', [])
GetSymptoms(disease) ==
    IF "symptoms" \in DOMAIN disease THEN disease.symptoms ELSE << >>

\* the keywords one symptom string contributes (model.py lines 18-23)
SymptomVariants(symptom) ==
    {Lower(symptom)}
    \cup (IF Contains(symptom, "ache") THEN {Replace(symptom, "ache", "pain")} ELSE {})
    \cup (IF Contains(symptom, "pain") THEN {Replace(symptom, "pain", "ache")} ELSE {})

_build_symptom_keywords(corpus) ==
    UNION {UNION {SymptomVariants(symptom) : symptom \in Range(GetSymptoms(corpus[i]))} :
              i \in 1..Len(corpus)}
    \cup {symptom_synonyms[i][1] : i \in 1..Len(symptom_synonyms)}

----------------------------------------------------------------------------
(* extract_symptoms *)

\* the messages the model sends to extract_symptoms
Texts == {"",
          "hello",
          "I have a runny nose and sore throat",
          "Headache, my head hurts and I feel hot",
          "sneezing, weak, no energy"}

\* Iterating a Python set of strings follows the strings' hashes, which are
\* salted per process: any order can occur, and it is fixed for the run.
\* An order lists the keywords that occur in some message of Texts; the
\* other keywords fail the test of line 54 for every modelled message.
ScannedKeywords(keywords) ==
    {k \in keywords : \E t \in Texts : Contains(Lower(t), k)}

IterationOrders(keywords) ==
    LET S == ScannedKeywords(keywords)
        n == Cardinality(S)
    IN  {o \in [1..n -> S] : \A i, j \in 1..n : i # j => o[i] # o[j]}

\* a scan that accepts a keyword only when it is the whole message
KeywordHit_WholeMessage(keyword, message_lower) == keyword = message_lower

\* line 54
KeywordHit(keyword, message_lower) == Contains(message_lower, keyword)

\* step 1, lines 53-55
KeywordScan(message_lower, order) ==
    SelectSeq(order, LAMBDA keyword : KeywordHit(keyword, message_lower))

\* line 73 without the membership test
PatternHit_NoMembershipTest(pattern, symptom, message_lower, detected_symptoms) ==
    Contains(message_lower, pattern)

\* line 73
PatternHit(pattern, symptom, message_lower, detected_symptoms) ==
    Contains(message_lower, pattern) /\ ~InList(symptom, detected_symptoms)

RECURSIVE PatternScan(_, _, _, _)
\* step 2, lines 71-74: entry i of symptom_patterns, its pattern j
PatternScan(detected_symptoms, message_lower, i, j) ==
    IF i > Len(symptom_patterns) THEN detected_symptoms
    ELSE IF j > Len(symptom_patterns[i].patterns)
         THEN PatternScan(detected_symptoms, message_lower, i + 1, 1)
         ELSE LET symptom == symptom_patterns[i].symptom
                  pattern == symptom_patterns[i].patterns[j]
              IN  IF PatternHit(pattern, symptom, message_lower, detected_symptoms)
                  THEN PatternScan(Append(detected_symptoms, symptom),
                                   message_lower, i, j + 1)
                  ELSE PatternScan(detected_symptoms, message_lower, i, j + 1)

extract_symptoms(message, order) ==
    LET message_lower == Lower(message)
    IN  PatternScan(KeywordScan(message_lower, order), message_lower, 1, 1)

----------------------------------------------------------------------------
(* _calculate_match_score *)

\* scores are rationals <<num, den>> with den > 0
ScoreZero == <<0, 1>>
ScoreOne == <<1, 1>>
ScoreGt(a, b) == a[1] * b[2] > b[1] * a[2]
ScoreGe(a, b) == a[1] * b[2] >= b[1] * a[2]
ScoreEq(a, b) == a[1] * b[2] = b[1] * a[2]

Max(a, b) == IF a >= b THEN a ELSE b

\* [s.lower() for s in list], lines 104-105
LowerAll(list) == [i \in 1..Len(list) |-> Lower(list[i])]

RECURSIVE CountExact(_, _, _)
\* lines 108-111, from entry i of the user's list on
CountExact(user_symptoms_lower, disease_symptoms_lower, i) ==
    IF i > Len(user_symptoms_lower) THEN 0
    ELSE (IF InList(user_symptoms_lower[i], disease_symptoms_lower) THEN 1 ELSE 0)
         + CountExact(user_symptoms_lower, disease_symptoms_lower, i + 1)

\* lines 131-133 without the reversed canonical/synonym test of line 132
SynonymHit_OneWay(user_symptom, disease_symptom, entry) ==
    \/ user_symptom = entry.canonical /\ InList(disease_symptom, entry.synonyms)
    \/ InList(user_symptom, entry.synonyms) /\ InList(disease_symptom, entry.synonyms)

\* lines 131-133 for one entry of synonym_map
SynonymHit(user_symptom, disease_symptom, entry) ==
    \/ user_symptom = entry.canonical /\ InList(disease_symptom, entry.synonyms)
    \/ disease_symptom = entry.canonical /\ InList(user_symptom, entry.synonyms)
    \/ InList(user_symptom, entry.synonyms) /\ InList(disease_symptom, entry.synonyms)

\* lines 128-135 for one pair: the number of 0.5 steps it adds (the scan of
\* synonym_map stops at the first hit)
PairPartial(user_symptom, disease_symptom) ==
    IF /\ user_symptom # disease_symptom
       /\ \E k \in 1..Len(synonym_map) :
              SynonymHit(user_symptom, disease_symptom, synonym_map[k])
    THEN 1 ELSE 0

RECURSIVE CountPartial(_, _, _, _)
\* lines 126-135, from pair (i, j) on: partial_matches in halves
CountPartial(user_symptoms_lower, disease_symptoms_lower, i, j) ==
    IF i > Len(user_symptoms_lower) THEN 0
    ELSE IF j > Len(disease_symptoms_lower)
         THEN CountPartial(user_symptoms_lower, disease_symptoms_lower, i + 1, 1)
         ELSE PairPartial(user_symptoms_lower[i], disease_symptoms_lower[j])
              + CountPartial(user_symptoms_lower, disease_symptoms_lower, i, j + 1)

\* no boost for multiple exact matches
Boost_None(exact_matches, total_tenths) == total_tenths

\* lines 142-143, on total_matches in tenths
Boost(exact_matches, total_tenths) ==
    IF exact_matches >= 2 THEN (total_tenths * 12) \div 10 ELSE total_tenths

\* no clamp of the score
ClampScore_None(score) == score

\* line 148: min(score, 1.0)
ClampScore(score) == IF ScoreGt(score, ScoreOne) THEN ScoreOne ELSE score

_calculate_match_score(user_symptoms, disease_symptoms) ==
    IF Len(user_symptoms) = 0 \/ Len(disease_symptoms) = 0 THEN ScoreZero
    ELSE LET user_symptoms_lower == LowerAll(user_symptoms)
             disease_symptoms_lower == LowerAll(disease_symptoms)
             exact_matches == CountExact(user_symptoms_lower, disease_symptoms_lower, 1)
             partial_halves ==
                 CountPartial(user_symptoms_lower, disease_symptoms_lower, 1, 1)
             total_tenths == 10 * exact_matches + 5 * partial_halves
             max_possible_matches == Max(Len(user_symptoms), Len(disease_symptoms))
         IN  ClampScore(<<Boost(exact_matches, total_tenths), 10 * max_possible_matches>>)

----------------------------------------------------------------------------
(* match_disease *)

\* line 94: 0.3
Threshold == <<3, 10>>

\* no early return on the empty list
NoSymptoms_Never(user_symptoms) == FALSE

\* line 80
NoSymptoms(user_symptoms) == Len(user_symptoms) = 0

\* a later tie replaces the best match (>= for >)
IsBetter_OrEqual(score, best_score) == ScoreGe(score, best_score)

\* line 89
IsBetter(score, best_score) == ScoreGt(score, best_score)

RECURSIVE MatchLoop(_, _, _, _, _)
\* lines 86-91 from disease i on; best_match is an index of the corpus, 0 for
\* None; calls counts the calls of _calculate_match_score
MatchLoop(corpus, user_symptoms, i, best_match, best_score) ==
    IF i > Len(corpus)
    THEN [raised |-> FALSE, best_match |-> best_match, best_score |-> best_score,
          calls |-> Len(corpus)]
    ELSE IF "symptoms" \notin DOMAIN corpus[i]
         THEN [raised |-> TRUE, best_match |-> 0, best_score |-> best_score,
               calls |-> i - 1]
         ELSE LET score == _calculate_match_score(user_symptoms, corpus[i].symptoms)
              IN  IF IsBetter(score, best_score)
                  THEN MatchLoop(corpus, user_symptoms, i + 1, i, score)
                  ELSE MatchLoop(corpus, user_symptoms, i + 1, best_match, best_score)

\* the outcome of match_disease: raised (KeyError), the returned disease as
\* an index of the corpus (0 for None), the best score and the number of
\* diseases scored
match_disease(corpus, user_symptoms) ==
    IF NoSymptoms(user_symptoms)
    THEN [raised |-> FALSE, best_match |-> 0, best_score |-> ScoreZero, calls |-> 0]
    ELSE LET r == MatchLoop(corpus, user_symptoms, 1, 0, ScoreZero)
         IN  IF r.raised \/ ScoreGe(r.best_score, Threshold)
             THEN r
             ELSE [r EXCEPT !.best_match = 0]

----------------------------------------------------------------------------
(* get_disease_info *)

\* the comparison of line 153 with the stored name left as it is
NameMatches_StoredNotLowered(disease, disease_name) ==
    disease.disease = Lower(disease_name)

\* line 153
NameMatches(disease, disease_name) ==
    Lower(disease.disease) = Lower(disease_name)

RECURSIVE LookupLoop(_, _, _)
\* lines 152-155 from disease i on: the index of the record returned, 0 for None
LookupLoop(corpus, disease_name, i) ==
    IF i > Len(corpus) THEN 0
    ELSE IF NameMatches(corpus[i], disease_name) THEN i
         ELSE LookupLoop(corpus, disease_name, i + 1)

get_disease_info(corpus, disease_name) == LookupLoop(corpus, disease_name, 1)

\* two records whose names differ in letter case only
NamesakeCorpus == <<
    [disease |-> "Flu", symptoms |-> <<"fever", "chills">>],
    [disease |-> "Cough", symptoms |-> <<"cough">>],
    [disease |-> "FLU", symptoms |-> <<"fever">>] >>

LookupCorpora == Corpora \cup {NamesakeCorpus}

\* the names the model looks up
Names == {"", "Common Cold", "common cold", "COMMON COLD", "Cold",
          "flu", "FLU", "Flu", "cough", "Heat", "heat", "Viral fever"}

----------------------------------------------------------------------------
(* Inputs *)

MaxLen == 2

\* the lists over pool of at most MaxLen entries
ListsOver(pool) == UNION {[1..n -> pool] : n \in 0..MaxLen}

ScorePool == {"headache", "fever", "Fever", "temperature", "hot"}
MatchPool == {"headache", "fever", "runny nose", "sore throat", "Temperature"}

Runs == {1, 2}

\* a call not yet made, with its argument
PendingExtract(message) == [called |-> FALSE, text |-> message, result |-> << >>]
PendingMatch(user_symptoms) ==
    [called |-> FALSE, user_symptoms |-> user_symptoms,
     outcome |-> [raised |-> FALSE, best_match |-> 0,
                  best_score |-> ScoreZero, calls |-> 0]]
PendingScore(user_symptoms, disease_symptoms) ==
    [called |-> FALSE, user_symptoms |-> user_symptoms,
     disease_symptoms |-> disease_symptoms, score |-> ScoreZero]

PendingLookup(disease_name) ==
    [called |-> FALSE, disease_name |-> disease_name, result |-> 0]

\* the matcher's calls not made
MatcherIdle ==
    /\ extracted = [r \in Runs |-> PendingExtract("")]
    /\ matched = PendingMatch(<< >>)
    /\ scored = PendingScore(<< >>, << >>)

\* the arguments of the calls made repeatedly in one run
CallTexts == {"I have a runny nose and sore throat", "sneezing, weak, no energy"}
CallLists == {<<"runny nose", "sore throat">>, <<"Headache", "FEVER">>}
CallNames == {"flu", "Common Cold"}

\* no call made yet: per argument, whether it was called, the result of the
\* first and of the last call, and for match_disease the caller's list after
\* the last call
NoCalls ==
    [extract |-> [t \in CallTexts |->
                     [called |-> FALSE, first |-> << >>, last |-> << >>]],
     match   |-> [l \in CallLists |->
                     [called |-> FALSE, first |-> PendingMatch(l).outcome,
                      last |-> PendingMatch(l).outcome, arg_after |-> l]],
     lookup  |-> [n \in CallNames |->
                     [called |-> FALSE, first |-> 0, last |-> 0]]]

----------------------------------------------------------------------------
(* The chat application (app.py, models.py): the requests of one user on    *)
(* one day.  A table row is a record, a table a sequence of rows, a row's   *)
(* id its index.                                                            *)

RECURSIVE StripLeft(_)
StripLeft(s) ==
    IF Len(s) > 0 /\ SubSeq(s, 1, 1) = " " THEN StripLeft(SubSeq(s, 2, Len(s))) ELSE s

RECURSIVE StripRight(_)
StripRight(s) ==
    IF Len(s) > 0 /\ SubSeq(s, Len(s), Len(s)) = " "
    THEN StripRight(SubSeq(s, 1, Len(s) - 1)) ELSE s

\* str.strip() on a message whose only white space is the blank
Strip(s) == StripRight(StripLeft(s))

\* the messages posted to /chat
Messages == {"  ",
             "hello",
             " I have a runny nose and sore throat",
             "sneezing, weak, no energy "}

\* the value of max_bot_responses_per_chat that stands for no limit
Unlimited == 999

\* SubscriptionPlan.query...first() for the user's plan: None, or the row
NoPlan == [found |-> FALSE, max_chats_per_day |-> 0, max_bot_responses_per_chat |-> 0]

Plans == {NoPlan,
          [found |-> TRUE, max_chats_per_day |-> 1, max_bot_responses_per_chat |-> 1],
          [found |-> TRUE, max_chats_per_day |-> 4, max_bot_responses_per_chat |-> 1],
          [found |-> TRUE, max_chats_per_day |-> 6,
           max_bot_responses_per_chat |-> Unlimited]}

\* datetime.now() - datetime.utcnow() in ticks: a server on UTC, and one in a
\* zone east of it, whose offset is longer than a modelled run
TzOffsets == {0, 100}

\* session_data is a plain JSON column: whether a value changed in place is
\* written back by a commit is the ORM's matter, so both are modelled
Deployments ==
    [plan_data : Plans, tz : TzOffsets, json_tracked : BOOLEAN]

\* the steps of a request at which an exception is raised
ChatFailures == {"none", "commit_336", "increment_338", "process_350", "commit_241",
                 "increment_391", "jsonify_399"}
NewChatFailures == {"none", "commit_429", "increment_432"}

\* ChatSession(...) of lines 330-334 and 423-427, inserted at UTC time
NewChatSession(time) ==
    [session_data |-> [messages |-> 0, current_symptoms |-> << >>,
                       awaiting_symptoms |-> FALSE],
     bot_response_count |-> 0,
     updated_at |-> time]

\* the tables after db.create_all(): no session, no message, no usage today
\* (a missing DailyUsage row counts as chat_count 0, lines 204-205)
EmptyDb == [chat_sessions |-> << >>, chat_messages |-> << >>, chat_count |-> 0]

\* lines 211 and 316
MaxChats(plan_data) == IF plan_data.found THEN plan_data.max_chats_per_day ELSE 2

\* a daily limit that is never reached
check_daily_limit_NoLimit(database, plan_data) == TRUE

check_daily_limit(database, plan_data) == database.chat_count < MaxChats(plan_data)

increment_daily_usage(database) == [database EXCEPT !.chat_count = @ + 1]

\* a limit test that lets one more answer through
ResponsesUsedUp_OneMore(bot_response_count, max_bot_responses_per_chat) ==
    bot_response_count > max_bot_responses_per_chat

\* line 236
ResponsesUsedUp(bot_response_count, max_bot_responses_per_chat) ==
    bot_response_count >= max_bot_responses_per_chat

check_bot_response_limit(chat_session, plan_data) ==
    IF ~plan_data.found \/ plan_data.max_bot_responses_per_chat = Unlimited
    THEN FALSE
    ELSE ResponsesUsedUp(chat_session.bot_response_count,
                         plan_data.max_bot_responses_per_chat)

\* line 327: the user's session with the greatest updated_at
LatestSession(database) ==
    CHOOSE i \in DOMAIN database.chat_sessions :
        \A j \in DOMAIN database.chat_sessions :
            database.chat_sessions[j].updated_at <= database.chat_sessions[i].updated_at

\* every detected symptom counts as new
IsNewSymptom_Always(symptom, current_symptoms) == TRUE

\* line 456
IsNewSymptom(symptom, current_symptoms) == ~InList(symptom, current_symptoms)

\* a new symptom put in front of the list
AddSymptom_InFront(current_symptoms, symptom) == <<symptom>> \o current_symptoms

\* line 457
AddSymptom(current_symptoms, symptom) == Append(current_symptoms, symptom)

RECURSIVE AddNewSymptoms(_, _, _)
\* lines 455-457 from potential symptom i on
AddNewSymptoms(current_symptoms, potential_symptoms, i) ==
    IF i > Len(potential_symptoms) THEN current_symptoms
    ELSE AddNewSymptoms(
             IF IsNewSymptom(potential_symptoms[i], current_symptoms)
             THEN AddSymptom(current_symptoms, potential_symptoms[i])
             ELSE current_symptoms,
             potential_symptoms, i + 1)

\* what process_user_message leaves: session_data as changed in memory, the
\* symptoms it detected, the key of the reply's text, the matched disease
\* (index of the corpus, 0 for none), and whether match_disease raised
Processed(session_data, potential_symptoms, key, disease, raised) ==
    [session_data |-> session_data, potential_symptoms |-> potential_symptoms,
     key |-> key, disease |-> disease, raised |-> raised]

NotProcessed == Processed(NewChatSession(0).session_data, << >>, "", 0, FALSE)

\* the corpus the application's matcher is built from (lines 99-103)
AppCorpus == ColdCorpus

\* a function as a table, computed once
Tabulated(f) == f @@ << >>

\* extract_symptoms on the messages of the model, in every order of the set
ExtractedTable ==
    Tabulated([call \in IterationOrders(_build_symptom_keywords(AppCorpus))
                         \X {Lower(Strip(message)) : message \in Messages} |->
                  extract_symptoms(call[2], call[1])])

\* symptom_matcher.extract_symptoms(message_lower), line 451
ExtractedSymptoms(message_lower, order) ==
    IF <<order, message_lower>> \in DOMAIN ExtractedTable
    THEN ExtractedTable[<<order, message_lower>>]
    ELSE extract_symptoms(message_lower, order)

\* the lists without a duplicate over the symptoms the messages hold
AccumulatedLists ==
    LET S == UNION {Range(ExtractedTable[call]) : call \in DOMAIN ExtractedTable}
    IN  UNION {{l \in [1..n -> S] : \A i, j \in 1..n : i # j => l[i] # l[j]} :
                  n \in 0..Cardinality(S)}

\* match_disease on these lists
MatchedTable ==
    Tabulated([current_symptoms \in AccumulatedLists |->
                  match_disease(AppCorpus, current_symptoms)])

\* symptom_matcher.match_disease(session_data['current_symptoms']), line 464
MatchedDisease(current_symptoms) ==
    IF diseases_data = AppCorpus /\ current_symptoms \in DOMAIN MatchedTable
    THEN MatchedTable[current_symptoms]
    ELSE match_disease(diseases_data, current_symptoms)

\* lines 466-524: the reply once match_disease has returned
Diagnosed(data, potential_symptoms, disease_match) ==
    IF disease_match.raised THEN Processed(data, potential_symptoms, "", 0, TRUE)
    ELSE IF disease_match.best_match # 0
    THEN Processed(data, potential_symptoms, "diagnosis_result",
                   disease_match.best_match, FALSE)
    ELSE Processed(data, potential_symptoms, "symptoms_noted", 0, FALSE)

\* a reply that asks match_disease whatever the length of the list
Accumulated_MatchedAtOnce(data, potential_symptoms) ==
    Diagnosed(data, potential_symptoms, MatchedDisease(data.current_symptoms))

\* lines 459-529: the reply once the detected symptoms are added
Accumulated(data, potential_symptoms) ==
    IF Len(data.current_symptoms) >= 2
    THEN Diagnosed(data, potential_symptoms, MatchedDisease(data.current_symptoms))
    ELSE Processed(data, potential_symptoms, "more_symptoms", 0, FALSE)

\* lines 453-541: the reply once extract_symptoms has returned
Detected(session_data, potential_symptoms) ==
    IF Len(potential_symptoms) > 0
    THEN Accumulated(
             [session_data EXCEPT
                 !.current_symptoms = AddNewSymptoms(@, potential_symptoms, 1),
                 !.awaiting_symptoms = TRUE],
             potential_symptoms)
    ELSE IF session_data.awaiting_symptoms
    THEN Processed(session_data, potential_symptoms, "no_symptoms_detected", 0, FALSE)
    ELSE Processed([session_data EXCEPT !.awaiting_symptoms = TRUE],
                   potential_symptoms, "welcome_message", 0, FALSE)

process_user_message(message, session_data, order) ==
    Detected(session_data, ExtractedSymptoms(Lower(message), order))

\* what a handler leaves: the tables, and the reply with what the handler
\* worked on (the session's id, 0 for none, the row as it was loaded, and
\* the processing of the message)
Handled(database, status, body, session_id, loaded, processed) ==
    [db |-> database,
     reply |-> [status |-> status, body |-> body, session_id |-> session_id,
                loaded |-> loaded, processed |-> processed]]

\* a reply sent before any session is looked at
Refused(database, status, body) ==
    Handled(database, status, body, 0, NewChatSession(0), NotProcessed)

\* a refusal that counts as a chat of the day
Selected_RefusalCounted(database, session_id) ==
    LET chat_session == database.chat_sessions[session_id]
    IN  IF check_bot_response_limit(chat_session, env.plan_data)
        THEN Handled(increment_daily_usage(database), 200, "limit_reached", session_id,
                     chat_session, NotProcessed)
        ELSE Handled(database, 0, "", session_id, chat_session, NotProcessed)

\* lines 340-347 on the session the request works on; status 0 is a request
\* that goes on to line 350
Selected(database, session_id) ==
    LET chat_session == database.chat_sessions[session_id]
    IN  IF check_bot_response_limit(chat_session, env.plan_data)
        THEN Handled(database, 200, "limit_reached", session_id, chat_session,
                     NotProcessed)
        ELSE Handled(database, 0, "", session_id, chat_session, NotProcessed)

\* chat(), lines 306-347
ChatBegin(database, time, message, fail) ==
    IF Strip(message) = "" THEN Refused(database, 400, "empty")
    ELSE IF ~check_daily_limit(database, env.plan_data)
    THEN Refused(database, 429, "daily_limit")
    ELSE IF Len(database.chat_sessions) = 0
    THEN IF fail = "commit_336" THEN Refused(database, 500, "error")
         ELSE LET created == [database EXCEPT
                                 !.chat_sessions = Append(@, NewChatSession(time))]
              IN  IF fail = "increment_338"
                  THEN Handled(created, 500, "error", 1, created.chat_sessions[1],
                               NotProcessed)
                  ELSE Selected(increment_daily_usage(created), 1)
    ELSE Selected(database, LatestSession(database))

\* lines 353-371: the commit of line 241 writes the counter (the loaded one
\* plus one), the two ChatMessage rows, updated_at (onupdate) and, where the
\* ORM tracks it, session_data as process_user_message changed it
Answered(database, time, id, loaded, processed) ==
    [database EXCEPT
        !.chat_sessions[id].bot_response_count = loaded.bot_response_count + 1,
        !.chat_sessions[id].updated_at = time,
        !.chat_sessions[id].session_data =
            IF env.json_tracked THEN processed.session_data ELSE @,
        !.chat_messages = @ \o <<[session_id |-> id, message_type |-> "user"],
                                 [session_id |-> id, message_type |-> "bot"]>>]

\* lines 374-393: the commit of line 227 writes session_data with the two
\* messages, updated_at of line 388 (local time) and the day's count
Saved(answered, time, id) ==
    increment_daily_usage(
        [answered EXCEPT
            !.chat_sessions[id].session_data.messages =
                IF env.json_tracked THEN @ + 2 ELSE @,
            !.chat_sessions[id].updated_at = time + env.tz])

\* lines 349-404 once process_user_message has returned: an exception leaves
\* what was committed before it
Finished(database, answered, saved, id, loaded, processed, fail) ==
    IF fail = "process_350" \/ processed.raised
    THEN Handled(database, 500, "error", id, loaded, NotProcessed)
    ELSE IF fail = "commit_241"
    THEN Handled(database, 500, "error", id, loaded, processed)
    ELSE IF fail = "increment_391"
    THEN Handled(answered, 500, "error", id, loaded, processed)
    ELSE IF fail = "jsonify_399"
    THEN Handled(saved, 500, "error", id, loaded, processed)
    ELSE Handled(saved, 200, "answer", id, loaded, processed)

Answering(database, time, id, loaded, processed, fail) ==
    LET answered == Answered(database, time, id, loaded, processed)
    IN  Finished(database, answered, Saved(answered, time, id), id, loaded, processed,
                 fail)

\* chat(), lines 349-404, for a request that passed the checks with the
\* reply begun: the session's row was loaded before
ChatFinish(database, time, begun, message, order, fail) ==
    Answering(database, time, begun.session_id, begun.loaded,
              process_user_message(Strip(message), begun.loaded.session_data, order),
              fail)

\* lines 340-350: the request goes on unless a reply was sent
Continued(begun, time, message, order, fail) ==
    IF begun.reply.status # 0 THEN begun
    ELSE ChatFinish(begun.db, time, begun.reply, message, order, fail)

\* chat() handled alone
chat(database, time, message, order, fail) ==
    Continued(ChatBegin(database, time, message, fail), time, message, order, fail)

\* new_chat(), lines 406-442
new_chat(database, time, fail) ==
    IF ~check_daily_limit(database, env.plan_data)
    THEN Refused(database, 429, "daily_limit")
    ELSE IF fail = "commit_429" THEN Refused(database, 500, "error")
    ELSE LET created == [database EXCEPT
                            !.chat_sessions = Append(@, NewChatSession(time))]
             session_id == Len(created.chat_sessions)
         IN  IF fail = "increment_432"
             THEN Handled(created, 500, "error", session_id,
                          created.chat_sessions[session_id], NotProcessed)
             ELSE Handled(increment_daily_usage(created), 200, "new_chat", session_id,
                          created.chat_sessions[session_id], NotProcessed)

\* the requests of a run, and how many of them may end in an exception
MaxRequests == 3
MaxFailures == 1

\* no request handled yet
NoRequest ==
    [kind |-> "none", message |-> "", reply |-> Refused(EmptyDb, 0, "").reply]

\* the two requests in flight at the same time
Requests == {"A", "B"}

\* the tables the two requests start from: empty, and after one new_chat
InitialDbs ==
    {EmptyDb,
     [chat_sessions |-> <<NewChatSession(0)>>, chat_messages |-> << >>, chat_count |-> 1]}

NoRequests ==
    [initial |-> EmptyDb,
     of |-> [r \in Requests |->
                [pc |-> "idle", message |-> "", reply |-> NoRequest.reply]]]

----------------------------------------------------------------------------
(* get_localized_text (app.py): a dict is the list of its (key, value)      *)
(* pairs, a call's outcome the exception it raised and the text returned    *)

HasKey(dict, k) == \E i \in DOMAIN dict : dict[i][1] = k

\* dict.get(k, default)
Get(dict, k, default) ==
    IF HasKey(dict, k) THEN dict[CHOOSE i \in DOMAIN dict : dict[i][1] = k][2]
    ELSE default

\* what load_languages returns without a readable languages.json (lines 128, 131)
DefaultLanguages ==
    << <<"languages", << <<"en", << <<"name", "English">>, <<"flag", "US">> >> >> >> >> >>

\* a languages.json: English and Hindi texts, templates with named fields,
\* with positional fields, with unbalanced braces and with doubled braces
TranslatedLanguages ==
    << <<"languages",
         << <<"en", << <<"name", "English">>,
                       <<"welcome_message", "Welcome">>,
                       <<"more_symptoms", "Noted {symptoms}, more?">>,
                       <<"health_advice", "Advice: {advice}">>,
                       <<"positional", "Noted {}">>,
                       <<"indexed", "Noted {0}, {symptoms}">>,
                       <<"unclosed", "Noted {symptoms">>,
                       <<"unopened", "Noted} {symptoms}">>,
                       <<"doubled", "{{{symptoms}}}">> >> >>,
            <<"hi", << <<"name", "Hindi">>,
                       <<"welcome_message", "Swagat">>,
                       <<"more_symptoms", "{symptoms} darj, aur?">>,
                       <<"positional", "{symptoms} {}">> >> >> >> >> >>

\* a languages.json without the 'languages' key
OtherLanguages == << <<"version", "1">> >>

LanguageFiles == {DefaultLanguages, TranslatedLanguages, OtherLanguages}

TextKeys == {"welcome_message", "more_symptoms", "health_advice", "positional",
             "indexed", "unclosed", "unopened", "doubled", "diagnosis_result"}

LanguageCodes == {"en", "hi", "gu"}

\* the keyword arguments of a call: none, the template's, another template's
KeywordArguments ==
    {<< >>, << <<"symptoms", "fever">> >>, << <<"advice", "rest">> >>}

Returned(text) == [raised |-> "none", text |-> text]
Raised(error) == [raised |-> error, text |-> ""]

\* the formatted rest of a template after its formatted beginning
After(prefix, rest) ==
    IF rest.raised = "none" THEN Returned(prefix \o rest.text) ELSE rest

\* the place of the first character c in text, 0 for none
FirstIndexOf(text, c) ==
    IF Contains(text, c)
    THEN CHOOSE i \in 1..Len(text) :
             /\ SubSeq(text, i, i) = c
             /\ \A j \in 1..(i - 1) : SubSeq(text, j, j) # c
    ELSE 0

\* a replacement field that names a positional argument: {} or {0}
IsPositional(field_name) ==
    \A i \in 1..Len(field_name) : Contains("0123456789", SubSeq(field_name, i, i))

RECURSIVE format(_, _)
\* str.format(**kwargs) on templates whose fields are plain names or
\* indexes: the text, or the first exception from the left
format(text, kwargs) ==
    IF Len(text) = 0 THEN Returned("")
    ELSE LET c == SubSeq(text, 1, 1)
             doubled == Len(text) >= 2 /\ SubSeq(text, 2, 2) = c
             close == FirstIndexOf(text, "}")
             field_name == SubSeq(text, 2, close - 1)
         IN  IF c \in {"{", "}"} /\ doubled
             THEN After(c, format(SubSeq(text, 3, Len(text)), kwargs))
             ELSE IF c = "}" \/ (c = "{" /\ close = 0) THEN Raised("ValueError")
             ELSE IF c # "{" THEN After(c, format(SubSeq(text, 2, Len(text)), kwargs))
             ELSE IF IsPositional(field_name) THEN Raised("IndexError")
             ELSE IF ~HasKey(kwargs, field_name) THEN Raised("KeyError")
             ELSE After(Get(kwargs, field_name, ""),
                        format(SubSeq(text, close + 1, Len(text)), kwargs))

\* line 165: the exceptions the handler catches
Caught == {"KeyError", "ValueError"}

\* lines 162-168
FormattedText(text, kwargs, formatted) ==
    IF Len(kwargs) = 0 \/ formatted.raised \in Caught THEN Returned(text)
    ELSE formatted

\* lines 153-159
LocalizedText(languages, requested, key) ==
    Get(IF ~HasKey(requested, key) THEN Get(languages, "en", << >>) ELSE requested,
        key, key)

Localized(languages, key, language, kwargs) ==
    LET text == LocalizedText(languages, Get(languages, language, << >>), key)
    IN  FormattedText(text, kwargs, format(text, kwargs))

get_localized_text(languages_data, key, language, kwargs) ==
    Localized(Get(languages_data, "languages", << >>), key, language, kwargs)

\* a call not yet made, with its arguments and what load_languages returns
PendingText(languages_data, key, language, kwargs) ==
    [called |-> FALSE, languages_data |-> languages_data, key |-> key,
     language |-> language, kwargs |-> kwargs, result |-> Returned("")]

NotLocalized == PendingText(DefaultLanguages, "", "en", << >>)

----------------------------------------------------------------------------
(* The user's row, the subscription plans and the reply that               *)
(* process_user_message builds from them (app.py, models.py)               *)

\* User(user_id=..., plan='basic'), language by its default (models.py 18-19)
NewUser == [plan |-> "basic", language |-> "en"]

PlanKeys == {"basic", "pro", "deluxe"}

\* SubscriptionPlan.query...first() that found no row
NoPlanRow ==
    [found |-> FALSE, plan_key |-> "", medicine_images |-> FALSE,
     available_languages |-> << >>]

\* a row of subscription_plans, with the columns the reply and the two
\* switch handlers read
PlanRow(plan_key, medicine_images, available_languages) ==
    [found |-> TRUE, plan_key |-> plan_key, medicine_images |-> medicine_images,
     available_languages |-> available_languages]

\* the tables that a plans.json can load (lines 36-55): a plan offers more
\* than the plan below it; every plan offers the same languages, with the
\* medicine_images flags the other way round and a plan whose language list
\* is empty; a table without the row of the 'basic' plan
TieredPlans ==
    <<PlanRow("basic", FALSE, <<"en", "hi">>),
      PlanRow("pro", TRUE, <<"en", "hi", "gu">>),
      PlanRow("deluxe", TRUE, <<"en", "hi", "gu", "ta">>)>>

FlatPlans ==
    <<PlanRow("basic", TRUE, <<"en", "hi">>),
      PlanRow("pro", FALSE, << >>),
      PlanRow("deluxe", FALSE, <<"en", "hi">>)>>

PaidPlansOnly ==
    <<PlanRow("pro", TRUE, <<"en", "hi">>),
      PlanRow("deluxe", TRUE, <<"en", "hi">>)>>

PlanTables == {TieredPlans, FlatPlans, PaidPlansOnly}

\* SubscriptionPlan.query.filter_by(plan_key=plan_key).first()
FirstPlan(table, plan_key) ==
    IF \E i \in DOMAIN table : table[i].plan_key = plan_key
    THEN table[CHOOSE i \in DOMAIN table :
                   /\ table[i].plan_key = plan_key
                   /\ \A j \in 1..(i - 1) : table[j].plan_key # plan_key]
    ELSE NoPlanRow

\* lines 139-148, called with the plan's key
get_available_languages(table, user_plan) ==
    LET plan_data == FirstPlan(table, user_plan)
    IN  IF plan_data.found /\ Len(plan_data.available_languages) > 0
        THEN plan_data.available_languages
        ELSE <<"en", "hi">>

\* what a switch handler leaves: the user's row and the reply
Switched(account, status, body) ==
    [user |-> account, reply |-> Refused(EmptyDb, status, body).reply]

\* lines 261-273
switch_plan(account, table, new_plan) ==
    IF FirstPlan(table, new_plan).found
    THEN Switched([account EXCEPT !.plan = new_plan], 200, "success")
    ELSE Switched(account, 400, "Invalid plan")

\* lines 275-300
switch_language(account, table, new_language) ==
    IF InList(new_language, get_available_languages(table, account.plan))
    THEN Switched([account EXCEPT !.language = new_language], 200, "success")
    ELSE Switched(account, 400, "Language not available in your current plan")

\* the plans and the languages a request can name: those of the tables, and
\* one that no table holds
RequestedPlans == PlanKeys \cup {"gold"}
RequestedLanguages == {"en", "hi", "gu", "ta", "fr"}

\* a corpus whose disease carries medicines: a medicine is a dict with a
\* name and, for some, a price, a purchase link and an image
MedicineCorpus == <<
    [disease |-> "Common Cold",
     symptoms |-> <<"cough", "runny nose", "sore throat">>,
     medicines |-> <<[name |-> "Paracetamol", price |-> "Rs 20",
                      buy_link |-> "shop/paracetamol", image |-> "paracetamol.png"],
                     [name |-> "Steam"]>>] >>

\* the corpora behind the replies: with medicines, and without the key
ReplyCorpora == {MedicineCorpus, ColdCorpus}

\* a languages.json with the texts of the replies
ReplyLanguages ==
    << <<"languages",
         << <<"en", << <<"name", "English">>,
                       <<"welcome_message", "Welcome">>,
                       <<"no_symptoms_detected", "No symptoms found">>,
                       <<"more_symptoms", "Noted {symptoms}, more?">>,
                       <<"symptoms_noted", "Noted {symptoms}">>,
                       <<"diagnosis_result",
                         "{symptoms}: {disease}\n{medicines}">>,
                       <<"health_advice", "Advice:\n{advice}">> >> >>,
            <<"hi", << <<"name", "Hindi">>,
                       <<"welcome_message", "Swagat">>,
                       <<"diagnosis_result",
                         "{symptoms} - {disease}\n{medicines}">> >> >> >> >> >>

RECURSIVE Join(_, _)
\* separator.join(list)
Join(list, separator) ==
    IF Len(list) = 0 THEN ""
    ELSE IF Len(list) = 1 THEN list[1]
    ELSE list[1] \o separator \o Join(Tail(list), separator)

RECURSIVE StripText(_)
\* str.strip() on a text whose white space is the blank and the line feed
StripText(s) ==
    IF Len(s) > 0 /\ SubSeq(s, 1, 1) \in {" ", "\n"}
    THEN StripText(SubSeq(s, 2, Len(s)))
    ELSE IF Len(s) > 0 /\ SubSeq(s, Len(s), Len(s)) \in {" ", "\n"}
    THEN StripText(SubSeq(s, 1, Len(s) - 1))
    ELSE s

\* lines 477 and 495
WithPrice(med, user_plan) == user_plan \in {"pro", "deluxe"} /\ "price" \in DOMAIN med

\* lines 481 and 497
WithBuyLink(med, user_plan) == user_plan = "deluxe" /\ "buy_link" \in DOMAIN med

\* lines 474-482; the bullet is written as an asterisk
MedLine(med, user_plan) ==
    "* " \o med.name
         \o (IF WithPrice(med, user_plan) THEN " - " \o med.price ELSE "")
         \o (IF WithBuyLink(med, user_plan)
             THEN " [Buy Now](" \o med.buy_link \o ")" ELSE "")

RECURSIVE MedicinesText(_, _)
\* lines 471-484
MedicinesText(medicines, user_plan) ==
    IF Len(medicines) = 0 THEN ""
    ELSE MedLine(Head(medicines), user_plan) \o "\n"
             \o MedicinesText(Tail(medicines), user_plan)

\* lines 494-498
FilteredMed(med, user_plan) ==
    IF WithPrice(med, user_plan) /\ WithBuyLink(med, user_plan)
    THEN [name |-> med.name, price |-> med.price, buy_link |-> med.buy_link]
    ELSE IF WithPrice(med, user_plan)
    THEN [name |-> med.name, price |-> med.price]
    ELSE IF WithBuyLink(med, user_plan)
    THEN [name |-> med.name, buy_link |-> med.buy_link]
    ELSE [name |-> med.name]

\* lines 486-499
FilteredMedicines(medicines, user_plan, plan_data) ==
    IF plan_data.found /\ plan_data.medicine_images
    THEN medicines
    ELSE [i \in DOMAIN medicines |-> FilteredMed(medicines[i], user_plan)]

\* lines 543-555, with the entry of the model's disease and the default
get_health_advice(disease) ==
    IF disease = "Common Cold"
    THEN "* Stay hydrated by drinking plenty of fluids\n* Get adequate rest\n"
             \o "* Consider using a humidifier\n"
             \o "* Consult a doctor if symptoms persist beyond 10 days"
    ELSE "* Follow medication instructions carefully\n"
             \o "* Stay hydrated and get adequate rest\n* Monitor your symptoms\n"
             \o "* Consult a healthcare professional if symptoms worsen"

\* what process_user_message returns: the exception it raised, or the dict
\* (a record with the keys the dict holds)
Responded(response) == [raised |-> "none", response |-> response]
NotResponded(error) == [raised |-> error, response |-> [message |-> ""]]

\* a reply that is a localized text alone (lines 521-541)
TextResponse(text) ==
    IF text.raised # "none" THEN NotResponded(text.raised)
    ELSE Responded([message |-> text.text])

\* lines 509-519
DiagnosisResponse(text, advice_text, user_plan, disease, filtered_medicines) ==
    IF text.raised # "none" THEN NotResponded(text.raised)
    ELSE IF user_plan = "deluxe" /\ advice_text.raised # "none"
    THEN NotResponded(advice_text.raised)
    ELSE Responded([message |-> IF user_plan = "deluxe"
                                THEN text.text \o "\n\n" \o advice_text.text
                                ELSE text.text,
                    disease |-> disease,
                    medicines |-> filtered_medicines])

\* lines 467-519 for the disease match_disease returned
DiagnosisOf(disease_match, symptoms_text, user_plan, plan_data, language, languages_data) ==
    LET medicines == IF "medicines" \in DOMAIN disease_match
                     THEN disease_match.medicines ELSE << >>
    IN  DiagnosisResponse(
            get_localized_text(languages_data, "diagnosis_result", language,
                << <<"symptoms", symptoms_text>>,
                   <<"disease", disease_match.disease>>,
                   <<"medicines", StripText(MedicinesText(medicines, user_plan))>> >>),
            get_localized_text(languages_data, "health_advice", language,
                << <<"advice", get_health_advice(disease_match.disease)>> >>),
            user_plan, disease_match.disease,
            FilteredMedicines(medicines, user_plan, plan_data))

\* lines 466-541: the dict returned for what the message was found to hold
Response(processed, account, table, languages_data) ==
    IF processed.raised THEN NotResponded("KeyError")
    ELSE IF processed.key = "diagnosis_result"
    THEN DiagnosisOf(diseases_data[processed.disease],
                     Join(processed.session_data.current_symptoms, ", "),
                     account.plan, FirstPlan(table, account.plan), account.language,
                     languages_data)
    ELSE IF processed.key \in {"symptoms_noted", "more_symptoms"}
    THEN TextResponse(
             get_localized_text(languages_data, processed.key, account.language,
                 << <<"symptoms",
                      Join(processed.session_data.current_symptoms, ", ")>> >>))
    ELSE TextResponse(
             get_localized_text(languages_data, processed.key, account.language, << >>))

\* a call of process_user_message not yet made, with the message and the
\* session_data of the session it works on
PendingReply(message, session_data) ==
    [called |-> FALSE, message |-> message, session_data |-> session_data,
     processed |-> NotProcessed, result |-> NotResponded("none")]

NotReplied == PendingReply("", NewChatSession(0).session_data)

\* the call made
Replied(pending, processed, result) ==
    [pending EXCEPT !.called = TRUE, !.processed = processed, !.result = result]

\* the user's row, the plans and the reply not in use
PlansIdle ==
    /\ user = NewUser
    /\ subscription_plans = << >>
    /\ replied = NotReplied

----------------------------------------------------------------------------
(* The variables at rest *)

\* the application's requests not in use
RequestsIdle ==
    /\ db = EmptyDb
    /\ env = [plan_data |-> NoPlan, tz |-> 0, json_tracked |-> FALSE]
    /\ now = 1
    /\ last = NoRequest
    /\ failures = 0
    /\ reqs = NoRequests

\* the application not in use
AppIdle ==
    /\ RequestsIdle
    /\ localized = NotLocalized
    /\ PlansIdle

\* nothing but the matcher's three calls in use
RestIdle ==
    /\ looked = PendingLookup("")
    /\ calls = NoCalls
    /\ AppIdle

----------------------------------------------------------------------------
(* Specifications *)

\* SymptomMatcher.__init__ on corpus, in every run
Constructed(corpus) ==
    /\ diseases_data = corpus
    /\ symptom_keywords = _build_symptom_keywords(corpus)

\* one order of the set for all runs
SomeOrder(keywords) == CHOOSE o \in IterationOrders(keywords) : TRUE

\* run r calls extract_symptoms on its message
ExtractSymptoms(r) ==
    /\ ~extracted[r].called
    /\ extracted' = [extracted EXCEPT ![r] =
           [called |-> TRUE, text |-> extracted[r].text,
            result |-> extract_symptoms(extracted[r].text, kwOrder[r])]]
    /\ UNCHANGED <<diseases_data, symptom_keywords, kwOrder, matched, scored, restVars>>

MatchDisease ==
    /\ ~matched.called
    /\ matched' = [matched EXCEPT !.called = TRUE,
                      !.outcome = match_disease(diseases_data, matched.user_symptoms)]
    /\ UNCHANGED <<diseases_data, symptom_keywords, kwOrder, extracted, scored, restVars>>

CalculateMatchScore ==
    /\ ~scored.called
    /\ scored' = [scored EXCEPT !.called = TRUE,
                     !.score = _calculate_match_score(scored.user_symptoms,
                                                      scored.disease_symptoms)]
    /\ UNCHANGED <<diseases_data, symptom_keywords, kwOrder, extracted, matched, restVars>>

\* the same message extracted in two runs of the program on one corpus
InitExtract ==
    /\ \E corpus \in Corpora : Constructed(corpus)
    /\ kwOrder \in [Runs -> IterationOrders(symptom_keywords)]
    /\ \E message \in Texts : extracted = [r \in Runs |-> PendingExtract(message)]
    /\ matched = PendingMatch(<< >>)
    /\ scored = PendingScore(<< >>, << >>)
    /\ RestIdle

NextExtract == \E r \in Runs : ExtractSymptoms(r)

SpecExtract == InitExtract /\ [][NextExtract]_vars

\* every symptom list matched on every corpus
InitMatch ==
    /\ \E corpus \in Corpora : Constructed(corpus)
    /\ kwOrder = [r \in Runs |-> SomeOrder(symptom_keywords)]
    /\ extracted = [r \in Runs |-> PendingExtract("")]
    /\ \E user_symptoms \in ListsOver(MatchPool) : matched = PendingMatch(user_symptoms)
    /\ scored = PendingScore(<< >>, << >>)
    /\ RestIdle

NextMatch == MatchDisease

SpecMatch == InitMatch /\ [][NextMatch]_vars

\* the score of every pair of lists
InitScore ==
    /\ Constructed(ColdCorpus)
    /\ kwOrder = [r \in Runs |-> SomeOrder(symptom_keywords)]
    /\ extracted = [r \in Runs |-> PendingExtract("")]
    /\ matched = PendingMatch(<< >>)
    /\ \E U \in ListsOver(ScorePool), D \in ListsOver(ScorePool) :
           scored = PendingScore(U, D)
    /\ RestIdle

NextScore == CalculateMatchScore

SpecScore == InitScore /\ [][NextScore]_vars

----------------------------------------------------------------------------
(* Claims on match_disease, under SpecMatch *)

\* C1: on a corpus whose records all list symptoms and a non-empty list S,
\* match_disease returns a disease iff the greatest score over the corpus is
\* at least 0.3, and then the first disease in corpus order with that
\* greatest score; one symptom matching one of three (1/3) is accepted, one
\* matching one of five (1/5) is rejected.
C1_FirstBestAboveThreshold ==
    (matched.called /\ matched.user_symptoms # << >> /\ WellFormed(diseases_data)) =>
        LET n == Len(diseases_data)
            m == matched.outcome.best_match
            Score(i) == _calculate_match_score(matched.user_symptoms,
                                               diseases_data[i].symptoms)
            greatest == {i \in 1..n : \A j \in 1..n : ScoreGe(Score(i), Score(j))}
            accepted == {i \in greatest : ScoreGe(Score(i), Threshold)}
        IN  /\ ~matched.outcome.raised
            /\ (m # 0) <=> (accepted # {})
            /\ m # 0 => (m \in accepted /\ \A j \in accepted : m <= j)
            /\ (diseases_data = ColdCorpus /\ matched.user_symptoms = <<"runny nose">>)
                   => m = 1
            /\ (diseases_data = WideCorpus /\ matched.user_symptoms = <<"headache">>)
                   => m = 0

\* C1 witness: Flu and Heat tie at 1/2 above Tension's 1/3; Flu, the first, is returned
C1_Witness ==
    /\ matched.called
    /\ diseases_data = TieCorpus
    /\ matched.user_symptoms = <<"headache">>
    /\ matched.outcome.best_match = 2

\* C3 as stated: on the Common Cold corpus the list [runny nose, sore throat]
\* scores 2/3 and match_disease returns Common Cold.
C3_ColdScoresTwoThirds ==
    (/\ matched.called
     /\ diseases_data = ColdCorpus
     /\ matched.user_symptoms = <<"runny nose", "sore throat">>) =>
        /\ ScoreEq(matched.outcome.best_score, <<2, 3>>)
        /\ matched.outcome.best_match = 1

\* C3 amended: on the Common Cold corpus the list [runny nose, sore throat]
\* scores 1.2 * 2/3 = 0.8 (two exact matches are boosted) and match_disease
\* returns Common Cold.
C3_ColdScoresFourFifths ==
    (/\ matched.called
     /\ diseases_data = ColdCorpus
     /\ matched.user_symptoms = <<"runny nose", "sore throat">>) =>
        /\ ScoreEq(matched.outcome.best_score, <<4, 5>>)
        /\ matched.outcome.best_match = 1
        /\ ~matched.outcome.raised

\* C3 witness: the scenario's call was made and returned a disease
C3_Witness ==
    /\ matched.called
    /\ diseases_data = ColdCorpus
    /\ matched.user_symptoms = <<"runny nose", "sore throat">>
    /\ matched.outcome.best_match # 0

\* C7: match_disease on the empty list returns None for every corpus, scores
\* no disease and does not raise.
C7_EmptyListNoMatch ==
    (matched.called /\ matched.user_symptoms = << >>) =>
        /\ matched.outcome.best_match = 0
        /\ matched.outcome.calls = 0
        /\ ~matched.outcome.raised

\* C7 witness: the empty list matched on the corpus whose record has no symptoms key
C7_Witness ==
    /\ matched.called
    /\ matched.user_symptoms = << >>
    /\ diseases_data = BrokenCorpus

----------------------------------------------------------------------------
(* Claims on _calculate_match_score, under SpecScore *)

\* C2: for non-empty U and D the score is min(1, b * (E + P) / max(|U|, |D|)),
\* E the entries of U occurring case-insensitively in D, P half the number of
\* pairs of unequal entries related by the synonym table, b = 1.2 when
\* E >= 2 and 1 otherwise; the score lies in [0, 1]; U = D = [headache, fever]
\* scores 1.
C2_ScoreFormula ==
    (scored.called /\ scored.user_symptoms # << >> /\ scored.disease_symptoms # << >>) =>
        LET U == scored.user_symptoms
            D == scored.disease_symptoms
            Related(u, d) ==
                \E k \in DOMAIN synonym_map :
                    LET c == synonym_map[k].canonical
                        syn == Range(synonym_map[k].synonyms)
                    IN  \/ u = c /\ d \in syn
                        \/ d = c /\ u \in syn
                        \/ {u, d} \subseteq syn
            E == Cardinality({i \in DOMAIN U :
                                 \E j \in DOMAIN D : Lower(U[i]) = Lower(D[j])})
            pairs == {p \in (DOMAIN U) \X (DOMAIN D) :
                         /\ Lower(U[p[1]]) # Lower(D[p[2]])
                         /\ Related(Lower(U[p[1]]), Lower(D[p[2]]))}
            num == (IF E >= 2 THEN 12 ELSE 10) * (2 * E + Cardinality(pairs))
            den == 20 * Max(Len(U), Len(D))
            expected == IF num > den THEN ScoreOne ELSE <<num, den>>
        IN  /\ ScoreEq(scored.score, expected)
            /\ ScoreGe(scored.score, ScoreZero)
            /\ ScoreGe(ScoreOne, scored.score)
            /\ (U = <<"headache", "fever">> /\ D = <<"headache", "fever">>)
                   => ScoreEq(scored.score, ScoreOne)

\* C2 witness: [headache, fever] scored against itself, boosted and clamped to 1
C2_Witness ==
    /\ scored.called
    /\ scored.user_symptoms = <<"headache", "fever">>
    /\ scored.disease_symptoms = <<"headache", "fever">>
    /\ ScoreEq(scored.score, ScoreOne)

\* no entry occurs twice in the list
DuplicateFree(list) ==
    \A i, j \in DOMAIN list : i # j => list[i] # list[j]

\* no entry occurs twice in the list, letter case ignored
DuplicateFreeIgnoringCase(list) ==
    \A i, j \in DOMAIN list : i # j => Lower(list[i]) # Lower(list[j])

\* C10 as stated: for duplicate-free lists the score is symmetric,
\* _calculate_match_score(U, D) = _calculate_match_score(D, U).
C10_SymmetricOnDuplicateFree ==
    (/\ scored.called
     /\ DuplicateFree(scored.user_symptoms)
     /\ DuplicateFree(scored.disease_symptoms)) =>
        ScoreEq(scored.score,
                _calculate_match_score(scored.disease_symptoms, scored.user_symptoms))

\* C10 amended: for lists that are duplicate-free when letter case is
\* ignored the score is symmetric; [temperature] against [fever] scores the
\* same as [fever] against [temperature].
C10_SymmetricIgnoringCase ==
    (/\ scored.called
     /\ DuplicateFreeIgnoringCase(scored.user_symptoms)
     /\ DuplicateFreeIgnoringCase(scored.disease_symptoms)) =>
        ScoreEq(scored.score,
                _calculate_match_score(scored.disease_symptoms, scored.user_symptoms))

\* C10 witness: [temperature] scored against [fever], a synonym pair worth 0.5
C10_Witness ==
    /\ scored.called
    /\ scored.user_symptoms = <<"temperature">>
    /\ scored.disease_symptoms = <<"fever">>
    /\ ScoreEq(scored.score, <<1, 2>>)

----------------------------------------------------------------------------
(* Claims on extract_symptoms, under SpecExtract *)

\* C4: extract_symptoms returns exactly the vocabulary keywords that are
\* substrings of the lower-cased text, followed by the canonical symptoms of
\* the pattern table, in table order, that have a trigger phrase in the text
\* and are not among those keywords, each once.
C4_ExactlyKeywordsThenPatterns ==
    \A r \in Runs :
        extracted[r].called =>
            LET text == Lower(extracted[r].text)
                result == extracted[r].result
                hits == {k \in symptom_keywords : Contains(text, k)}
                n == Cardinality(hits)
                Triggered(i) ==
                    \E j \in DOMAIN symptom_patterns[i].patterns :
                        Contains(text, symptom_patterns[i].patterns[j])
                canonical == [i \in DOMAIN symptom_patterns |->
                                 symptom_patterns[i].symptom]
                step2 == SelectSeq(canonical,
                             LAMBDA c : /\ c \notin hits
                                        /\ \E i \in DOMAIN symptom_patterns :
                                               /\ symptom_patterns[i].symptom = c
                                               /\ Triggered(i))
            IN  /\ Len(result) = n + Len(step2)
                /\ Range(SubSeq(result, 1, n)) = hits
                /\ SubSeq(result, n + 1, Len(result)) = step2

\* C4 witness: headache found by the keyword scan, fever by the phrase scan
C4_Witness ==
    \E r \in Runs :
        /\ extracted[r].called
        /\ diseases_data = TieCorpus
        /\ extracted[r].text = "Headache, my head hurts and I feel hot"
        /\ extracted[r].result = <<"headache", "fever">>

\* C5: two calls of extract_symptoms with the same text, in two runs of the
\* program on the same corpus, return the same list in the same order.
C5_SameTextSameList ==
    \A r1, r2 \in Runs :
        (/\ extracted[r1].called
         /\ extracted[r2].called
         /\ extracted[r1].text = extracted[r2].text) =>
            extracted[r1].result = extracted[r2].result

\* C6: on the Common Cold corpus, extract_symptoms("I have a runny nose and
\* sore throat") returns exactly [runny nose, sore throat], in that order.
C6_ColdScenarioOrder ==
    \A r \in Runs :
        (/\ extracted[r].called
         /\ diseases_data = ColdCorpus
         /\ extracted[r].text = "I have a runny nose and sore throat") =>
            extracted[r].result = <<"runny nose", "sore throat">>

\* C8: for every corpus, also one listing an empty or blank symptom string,
\* extract_symptoms on the empty text returns the empty list.
C8_EmptyTextEmptyList ==
    \A r \in Runs :
        (extracted[r].called /\ extracted[r].text = "") =>
            extracted[r].result = << >>

\* C9: the list extract_symptoms returns contains no string twice.
C9_NoDuplicates ==
    \A r \in Runs :
        extracted[r].called => DuplicateFree(extracted[r].result)

\* C9 witness: sneezing met by the keyword scan and again by its trigger
\* phrase, fatigue met by two trigger phrases
C9_Witness ==
    \E r \in Runs :
        /\ extracted[r].called
        /\ extracted[r].text = "sneezing, weak, no energy"
        /\ extracted[r].result = <<"sneezing", "fatigue">>

----------------------------------------------------------------------------
(* get_disease_info, under SpecLookup *)

GetDiseaseInfo ==
    /\ ~looked.called
    /\ looked' = [looked EXCEPT !.called = TRUE,
                     !.result = get_disease_info(diseases_data, looked.disease_name)]
    /\ UNCHANGED <<diseases_data, symptom_keywords, kwOrder, extracted, matched, scored,
                   calls, appVars>>

\* every name looked up in every corpus
InitLookup ==
    /\ \E corpus \in LookupCorpora : Constructed(corpus)
    /\ kwOrder = [r \in Runs |-> SomeOrder(symptom_keywords)]
    /\ MatcherIdle
    /\ \E disease_name \in Names : looked = PendingLookup(disease_name)
    /\ calls = NoCalls
    /\ AppIdle

NextLookup == GetDiseaseInfo

SpecLookup == InitLookup /\ [][NextLookup]_vars

\* C11: get_disease_info(name) returns the first record in corpus order whose
\* name equals the given name ignoring letter case, so names differing only
\* in case return the same record; with no such record it returns None.
C11_FirstNameIgnoringCase ==
    looked.called =>
        LET same == {i \in DOMAIN diseases_data :
                        Lower(diseases_data[i].disease) = Lower(looked.disease_name)}
        IN  /\ (same = {}) => looked.result = 0
            /\ (same # {}) => (looked.result \in same
                               /\ \A i \in same : looked.result <= i)
            /\ \A other \in Names :
                   Lower(other) = Lower(looked.disease_name) =>
                       get_disease_info(diseases_data, other) = looked.result

\* C11 witness: "flu" finds the record named Flu, not the later record FLU
C11_Witness ==
    /\ looked.called
    /\ diseases_data = NamesakeCorpus
    /\ looked.disease_name = "flu"
    /\ looked.result = 1

----------------------------------------------------------------------------
(* Calls in any order on one matcher, under SpecCalls *)

\* a matcher that adds what it detected to its vocabulary
KeywordsAfterExtract_Learns(keywords, detected_symptoms) ==
    keywords \cup Range(detected_symptoms)

\* self.symptom_keywords after extract_symptoms: lines 47-76 only read it
KeywordsAfterExtract(keywords, detected_symptoms) == keywords

\* a scoring that lower-cases the caller's list in place
ListAfterMatch_LoweredInPlace(user_symptoms) == LowerAll(user_symptoms)

\* the caller's list after match_disease: lines 104-105 build new lists
ListAfterMatch(user_symptoms) == user_symptoms

\* the record of a call with this result, given the record before it
Called(before, result) ==
    [before EXCEPT !.called = TRUE,
                   !.first = IF before.called THEN before.first ELSE result,
                   !.last = result]

CallExtract(message) ==
    LET result == extract_symptoms(message, kwOrder[1])
    IN  /\ calls' = [calls EXCEPT !.extract[message] = Called(@, result)]
        /\ symptom_keywords' = KeywordsAfterExtract(symptom_keywords, result)
        /\ UNCHANGED <<diseases_data, kwOrder, extracted, matched, scored, looked,
                       appVars>>

CallMatch(user_symptoms) ==
    LET result == match_disease(diseases_data, user_symptoms)
    IN  /\ calls' = [calls EXCEPT !.match[user_symptoms] =
                        [Called(@, result) EXCEPT
                            !.arg_after = ListAfterMatch(user_symptoms)]]
        /\ UNCHANGED <<diseases_data, symptom_keywords, kwOrder, extracted, matched,
                       scored, looked, appVars>>

CallLookup(disease_name) ==
    LET result == get_disease_info(diseases_data, disease_name)
    IN  /\ calls' = [calls EXCEPT !.lookup[disease_name] = Called(@, result)]
        /\ UNCHANGED <<diseases_data, symptom_keywords, kwOrder, extracted, matched,
                       scored, looked, appVars>>

\* one run of the program on every corpus, the set in every order
InitCalls ==
    /\ \E corpus \in LookupCorpora : Constructed(corpus)
    /\ \E o \in IterationOrders(symptom_keywords) : kwOrder = [r \in Runs |-> o]
    /\ MatcherIdle
    /\ looked = PendingLookup("")
    /\ calls = NoCalls
    /\ AppIdle

NextCalls ==
    \/ \E message \in CallTexts : CallExtract(message)
    \/ \E user_symptoms \in CallLists : CallMatch(user_symptoms)
    \/ \E disease_name \in CallNames : CallLookup(disease_name)

SpecCalls == InitCalls /\ [][NextCalls]_vars

----------------------------------------------------------------------------
(* The application's requests handled one at a time, under SpecApp *)

Reversed(list) == [i \in 1..Len(list) |-> list[Len(list) + 1 - i]]

\* the application's run iterates the vocabulary in some order or its reverse
AppOrders(keywords) == {SomeOrder(keywords), Reversed(SomeOrder(keywords))}

\* the request ended in the handler's except clause
Failed(handled) == handled.reply.status = 500

\* POST /chat
ChatRequest(message, fail) ==
    /\ now <= MaxRequests
    /\ fail # "none" => failures < MaxFailures
    /\ LET handled == chat(db, now, message, kwOrder[1], fail)
       IN  /\ db' = handled.db
           /\ last' = [kind |-> "chat", message |-> message, reply |-> handled.reply]
           /\ failures' = IF Failed(handled) THEN failures + 1 ELSE failures
    /\ now' = now + 1
    /\ UNCHANGED <<matcherVars, env, reqs, localized, planVars>>

\* POST /new_chat
NewChatRequest(fail) ==
    /\ now <= MaxRequests
    /\ fail # "none" => failures < MaxFailures
    /\ LET handled == new_chat(db, now, fail)
       IN  /\ db' = handled.db
           /\ last' = [kind |-> "new_chat", message |-> "", reply |-> handled.reply]
           /\ failures' = IF Failed(handled) THEN failures + 1 ELSE failures
    /\ now' = now + 1
    /\ UNCHANGED <<matcherVars, env, reqs, localized, planVars>>

\* the application started on its corpus, in every deployment
InitApp ==
    /\ Constructed(AppCorpus)
    /\ \E o \in AppOrders(symptom_keywords) : kwOrder = [r \in Runs |-> o]
    /\ MatcherIdle
    /\ looked = PendingLookup("")
    /\ calls = NoCalls
    /\ db = EmptyDb
    /\ env \in Deployments
    /\ now = 1
    /\ last = NoRequest
    /\ failures = 0
    /\ reqs = NoRequests
    /\ localized = NotLocalized
    /\ PlansIdle

NextApp ==
    \/ \E message \in Messages, fail \in ChatFailures : ChatRequest(message, fail)
    \/ \E fail \in NewChatFailures : NewChatRequest(fail)

SpecApp == InitApp /\ [][NextApp]_vars

\* the symptom list of a session as the last request left it in memory
SymptomsInMemory == last.reply.processed.session_data.current_symptoms

\* C13: in every reachable state no session's accumulated symptom list holds
\* a symptom twice, neither the stored list nor the one a request just worked
\* on.
C13_NoSymptomTwice ==
    /\ \A id \in DOMAIN db.chat_sessions :
           DuplicateFree(db.chat_sessions[id].session_data.current_symptoms)
    /\ DuplicateFree(SymptomsInMemory)

\* C13 witness: a message naming symptoms the session already holds was
\* answered
C13_Witness ==
    /\ last.kind = "chat"
    /\ last.reply.body = "answer"
    /\ \E symptom \in Range(last.reply.processed.potential_symptoms) :
           InList(symptom, last.reply.loaded.session_data.current_symptoms)

\* list a is the beginning of list b
IsPrefix(a, b) == Len(a) <= Len(b) /\ SubSeq(b, 1, Len(a)) = a

\* C14: within a session the accumulated symptom list only grows: every
\* step leaves each stored list a prefix of what it becomes, the list a chat
\* request loaded is a prefix of the list it leaves, and a message without a
\* detected symptom leaves the list as it was.
C14_ListOnlyGrows ==
    [][/\ \A id \in DOMAIN db.chat_sessions :
              IsPrefix(db.chat_sessions[id].session_data.current_symptoms,
                       db'.chat_sessions[id].session_data.current_symptoms)
       /\ (last'.kind = "chat" /\ last'.reply.body = "answer") =>
              LET before == last'.reply.loaded.session_data.current_symptoms
                  after == last'.reply.processed.session_data.current_symptoms
                  id == last'.reply.session_id
              IN  /\ IsPrefix(before, after)
                  /\ Len(last'.reply.processed.potential_symptoms) = 0 =>
                         /\ after = before
                         /\ db'.chat_sessions[id].session_data.current_symptoms = before
      ]_vars

\* C14 witness: an answered message added symptoms to a list that held some
C14_Witness ==
    /\ last.kind = "chat"
    /\ last.reply.body = "answer"
    /\ Len(last.reply.loaded.session_data.current_symptoms) > 0
    /\ Len(SymptomsInMemory) > Len(last.reply.loaded.session_data.current_symptoms)
    /\ db.chat_sessions[last.reply.session_id].session_data.current_symptoms
           = SymptomsInMemory

\* C15 as stated: the chat request that follows a successful new_chat is
\* processed on the session that new_chat created, whose symptom list is
\* empty and whose bot_response_count is 0, and on no earlier session.
C15_NextChatOnNewSession ==
    [][(/\ last.kind = "new_chat"
        /\ last.reply.body = "new_chat"
        /\ last'.kind = "chat"
        /\ last'.reply.session_id # 0) =>
           /\ last'.reply.session_id = last.reply.session_id
           /\ last'.reply.loaded.bot_response_count = 0
           /\ Len(last'.reply.loaded.session_data.current_symptoms) = 0
      ]_vars

\* C16 as stated: for a plan with max_chats_per_day = M the day's chat_count
\* never exceeds M, whatever chat and new_chat requests were handled.
C16_ChatCountWithinQuota ==
    env.plan_data.found => db.chat_count <= env.plan_data.max_chats_per_day

\* the plan limits the answers of a chat to R
Limited ==
    env.plan_data.found /\ env.plan_data.max_bot_responses_per_chat # Unlimited

\* no session's bot_response_count is above R
CountsWithinLimit ==
    Limited => \A id \in DOMAIN db.chat_sessions :
                   db.chat_sessions[id].bot_response_count
                       <= env.plan_data.max_bot_responses_per_chat

\* without a limit no request gets the limit_reached reply
NeverRefusedWhenUnlimited ==
    ~Limited => last.reply.body # "limit_reached"

\* C17 as stated: bot_response_count never exceeds R, every chat request
\* (with a message) that arrives when the count of the user's current
\* session is R or more gets the limit_reached reply, and with R = 999 no
\* request is refused for this limit.
C17_LimitReachedWheneverUsedUp ==
    [][/\ CountsWithinLimit'
       /\ NeverRefusedWhenUnlimited'
       /\ (/\ last'.kind = "chat"
           /\ now' = now + 1
           /\ Strip(last'.message) # ""
           /\ Limited
           /\ Len(db.chat_sessions) > 0
           /\ db.chat_sessions[LatestSession(db)].bot_response_count
                  >= env.plan_data.max_bot_responses_per_chat) =>
              last'.reply.body = "limit_reached"
      ]_vars

\* C17 amended: bot_response_count never exceeds R, a chat request that
\* passed the daily-limit check and works on a session whose count is R or
\* more gets the limit_reached reply and no answer (a request the daily limit
\* refuses gets the 429 reply whatever the count), and with R = 999 no request
\* is refused for this limit.
C17_LimitReachedPastDailyCheck ==
    /\ CountsWithinLimit
    /\ NeverRefusedWhenUnlimited
    /\ (/\ last.kind = "chat"
        /\ last.reply.session_id # 0
        /\ Limited
        /\ last.reply.loaded.bot_response_count
               >= env.plan_data.max_bot_responses_per_chat) =>
           /\ last.reply.body = "limit_reached"
           /\ last.reply.status = 200
           /\ db.chat_sessions[last.reply.session_id] = last.reply.loaded

\* C17 witness: a session with R answers refused a further message
C17_Witness ==
    /\ last.kind = "chat"
    /\ last.reply.body = "limit_reached"
    /\ last.reply.loaded.bot_response_count = env.plan_data.max_bot_responses_per_chat
    /\ db.chat_count < env.plan_data.max_chats_per_day

\* C19 as stated: a chat request that fails with an exception after the
\* daily-limit check is rolled back, the tables after it (sessions, stored
\* messages, bot_response_count, chat_count) are the tables before it.
C19_FailedChatChangesNothing ==
    [][(/\ last'.kind = "chat"
        /\ now' = now + 1
        /\ last'.reply.status = 500) => db' = db
      ]_vars

----------------------------------------------------------------------------
(* Two chat requests of the user handled at the same time, under            *)
(* SpecConcurrent: the handlers take no lock, so a request runs from its    *)
(* start to the limit check (lines 306-347) and from there to its end       *)
(* (lines 349-399) with the other request's steps in between.  The steps of *)
(* the program are finer; every interleaving here is one of the program.    *)

BeginChat(r) ==
    /\ reqs.of[r].pc = "start"
    /\ LET begun == ChatBegin(db, now, reqs.of[r].message, "none")
       IN  /\ db' = begun.db
           /\ reqs' = [reqs EXCEPT
                          !.of[r].pc = IF begun.reply.status # 0 THEN "done" ELSE "begun",
                          !.of[r].reply = begun.reply]
    /\ now' = now + 1
    /\ UNCHANGED <<matcherVars, env, last, failures, localized, planVars>>

FinishChat(r) ==
    /\ reqs.of[r].pc = "begun"
    /\ LET handled == ChatFinish(db, now, reqs.of[r].reply, reqs.of[r].message,
                                 kwOrder[1], "none")
       IN  /\ db' = handled.db
           /\ reqs' = [reqs EXCEPT !.of[r].pc = "done", !.of[r].reply = handled.reply]
    /\ now' = now + 1
    /\ UNCHANGED <<matcherVars, env, last, failures, localized, planVars>>

\* two requests with any two messages arrive, in every deployment
InitConcurrent ==
    /\ Constructed(AppCorpus)
    /\ \E o \in AppOrders(symptom_keywords) : kwOrder = [r \in Runs |-> o]
    /\ MatcherIdle
    /\ looked = PendingLookup("")
    /\ calls = NoCalls
    /\ db \in InitialDbs
    /\ env \in Deployments
    /\ now = 1
    /\ last = NoRequest
    /\ failures = 0
    /\ \E message \in [Requests -> Messages] :
           reqs = [initial |-> db,
                   of |-> [r \in Requests |->
                              [pc |-> "start", message |-> message[r],
                               reply |-> NoRequest.reply]]]
    /\ localized = NotLocalized
    /\ PlansIdle

NextConcurrent ==
    \/ \E r \in Requests : BeginChat(r)
    \/ \E r \in Requests : FinishChat(r)

SpecConcurrent == InitConcurrent /\ [][NextConcurrent]_vars

\* the tables after the two requests handled one after the other
SequentialDb(first, second) ==
    chat(chat(reqs.initial, 1, reqs.of[first].message, kwOrder[1], "none").db,
         2, reqs.of[second].message, kwOrder[1], "none").db

\* each session's accumulated symptoms and bot_response_count
SessionStates(database) ==
    [id \in DOMAIN database.chat_sessions |->
        [current_symptoms |-> database.chat_sessions[id].session_data.current_symptoms,
         bot_response_count |-> database.chat_sessions[id].bot_response_count]]

\* C18 as stated: two chat requests of the user handled at the same time do
\* not interleave on the session, the sessions' symptoms and
\* bot_response_count after both equal those after the two requests in one
\* order or the other.
C18_EqualsSomeSequentialOrder ==
    (\A r \in Requests : reqs.of[r].pc = "done") =>
        \/ SessionStates(db) = SessionStates(SequentialDb("A", "B"))
        \/ SessionStates(db) = SessionStates(SequentialDb("B", "A"))

----------------------------------------------------------------------------
(* get_localized_text, under SpecText *)

GetLocalizedText ==
    /\ ~localized.called
    /\ localized' = [localized EXCEPT
                        !.called = TRUE,
                        !.result = get_localized_text(localized.languages_data,
                                                      localized.key, localized.language,
                                                      localized.kwargs)]
    /\ UNCHANGED <<matcherVars, db, env, now, last, failures, reqs, planVars>>

\* every key in every language with every keyword arguments, on every file
InitText ==
    /\ Constructed(AppCorpus)
    /\ kwOrder = [r \in Runs |-> SomeOrder(symptom_keywords)]
    /\ MatcherIdle
    /\ looked = PendingLookup("")
    /\ calls = NoCalls
    /\ RequestsIdle
    /\ \E languages_data \in LanguageFiles, key \in TextKeys,
          language \in LanguageCodes, kwargs \in KeywordArguments :
           localized = PendingText(languages_data, key, language, kwargs)
    /\ PlansIdle

NextText == GetLocalizedText

SpecText == InitText /\ [][NextText]_vars

\* the text the fallback rules give: the requested language's, else the
\* English one, else the key
FallbackText(languages_data, key, language) ==
    LET languages == Get(languages_data, "languages", << >>)
        defines(code) == HasKey(Get(languages, code, << >>), key)
    IN  IF defines(language) THEN Get(Get(languages, language, << >>), key, key)
        ELSE IF defines("en") THEN Get(Get(languages, "en", << >>), key, key)
        ELSE key

\* C20 as stated: get_localized_text never raises; it returns the requested
\* language's text of the key, else the English text, else the key itself,
\* formatted with the arguments, and unformatted when formatting fails.
C20_NeverRaisesAndFallsBack ==
    localized.called =>
        LET text == FallbackText(localized.languages_data, localized.key,
                                 localized.language)
            formatted == format(text, localized.kwargs)
        IN  /\ localized.result.raised = "none"
            /\ localized.result.text =
                   IF Len(localized.kwargs) > 0 /\ formatted.raised = "none"
                   THEN formatted.text ELSE text

----------------------------------------------------------------------------
(* process_user_message and the reply it returns, under SpecReply *)

\* the messages chat() passes on, stripped and not empty (lines 308-311):
\* those of Messages, and one that names a single symptom
ReplyMessages == ({Strip(message) : message \in Messages} \ {""}) \cup {"I have a sore throat"}

\* the session_data a session can hold when a message arrives: a list
\* without a duplicate of up to MaxLen symptoms, awaiting_symptoms set once
\* the list holds a symptom (line 459)
SessionDatas ==
    {[messages |-> 0, current_symptoms |-> current_symptoms,
      awaiting_symptoms |-> awaiting_symptoms] :
         <<current_symptoms, awaiting_symptoms>> \in
             {c \in {l \in AccumulatedLists : Len(l) <= MaxLen} \X BOOLEAN :
                  Len(c[1]) > 0 => c[2]}}

\* the reply to what the message was found to hold
Reply(pending, processed) ==
    Replied(pending, processed,
            Response(processed, user, subscription_plans, ReplyLanguages))

ProcessUserMessage ==
    /\ ~replied.called
    /\ replied' = Reply(replied,
                        process_user_message(replied.message, replied.session_data,
                                             kwOrder[1]))
    /\ UNCHANGED <<matcherVars, db, env, now, last, failures, reqs, localized, user,
                   subscription_plans>>

\* every message on every session_data, for every plan of the user in every
\* table of plans
InitReply ==
    /\ \E corpus \in ReplyCorpora : Constructed(corpus)
    /\ \E o \in AppOrders(symptom_keywords) : kwOrder = [r \in Runs |-> o]
    /\ MatcherIdle
    /\ looked = PendingLookup("")
    /\ calls = NoCalls
    /\ RequestsIdle
    /\ localized = NotLocalized
    /\ subscription_plans \in PlanTables
    /\ user \in [plan : PlanKeys, language : {"en", "hi"}]
    /\ \E message \in ReplyMessages, session_data \in SessionDatas :
           replied = PendingReply(message, session_data)

NextReply == ProcessUserMessage

SpecReply == InitReply /\ [][NextReply]_vars

\* the symptoms extract_symptoms finds in the message of the call
DetectedInMessage == extract_symptoms(Lower(replied.message), kwOrder[1])

\* the session's list once the call has added what it detected
AccumulatedList == replied.processed.session_data.current_symptoms

\* C21: a reply carries a disease only if symptoms were detected in the
\* message, the accumulated list then holds at least 2 symptoms and
\* match_disease on that list returned this disease; with fewer than 2
\* accumulated symptoms, or with no symptom detected in the message, the
\* reply carries neither a disease nor medicines.
C21_DiseaseOnlyFromMatchOnTwo ==
    (replied.called /\ replied.result.raised = "none") =>
        LET response == replied.result.response
            disease_match == match_disease(diseases_data, AccumulatedList)
        IN  /\ "disease" \in DOMAIN response =>
                   /\ Len(DetectedInMessage) > 0
                   /\ Len(AccumulatedList) >= 2
                   /\ disease_match.best_match # 0
                   /\ response.disease = diseases_data[disease_match.best_match].disease
            /\ (Len(AccumulatedList) < 2 \/ Len(DetectedInMessage) = 0) =>
                   /\ "disease" \notin DOMAIN response
                   /\ "medicines" \notin DOMAIN response

\* C21 witness: a message with a symptom brought the list to 2 and the reply
\* carries the disease with its medicines
C21_Witness ==
    /\ replied.called
    /\ Len(replied.session_data.current_symptoms) = 1
    /\ Len(AccumulatedList) >= 2
    /\ "disease" \in DOMAIN replied.result.response
    /\ Len(replied.result.response.medicines) > 0

\* the medicines of the disease the reply names
ReplyMedicines ==
    LET disease == CHOOSE d \in Range(diseases_data) :
                       d.disease = replied.result.response.disease
    IN  IF "medicines" \in DOMAIN disease THEN disease.medicines ELSE << >>

\* the reply's text shows a medicine's price only on the pro and deluxe
\* plans and its purchase link only on the deluxe plan
TextGatedByPlan ==
    \A med \in Range(ReplyMedicines) :
        /\ ("price" \in DOMAIN med
                /\ Contains(replied.result.response.message, med.price)) =>
               user.plan \in {"pro", "deluxe"}
        /\ ("buy_link" \in DOMAIN med
                /\ Contains(replied.result.response.message, med.buy_link)) =>
               user.plan = "deluxe"

\* the same of the entries of the reply's medicines list
ListGatedByPlan ==
    \A med \in Range(replied.result.response.medicines) :
        /\ "price" \in DOMAIN med => user.plan \in {"pro", "deluxe"}
        /\ "buy_link" \in DOMAIN med => user.plan = "deluxe"

\* C22 as stated: whatever the plan's medicine_images flag, a medicine entry
\* of a diagnosis reply, in the message text and in the medicines list,
\* carries a purchase link only when the user's plan is deluxe and a price
\* only when it is pro or deluxe.
C22_MedicineDetailsGatedByPlan ==
    (/\ replied.called
     /\ replied.result.raised = "none"
     /\ "disease" \in DOMAIN replied.result.response) =>
        /\ TextGatedByPlan
        /\ ListGatedByPlan

----------------------------------------------------------------------------
(* The vocabulary built at construction, under SpecExtract *)

\* C23 as stated: every keyword of the vocabulary built at construction is
\* a lower-case string, for every corpus, also for a corpus whose symptom
\* strings hold upper-case letters together with "ache" or "pain".
C23_VocabularyLowerCase ==
    \A keyword \in symptom_keywords : Lower(keyword) = keyword

----------------------------------------------------------------------------
(* Refused requests, under SpecApp *)

\* the day's chat_count has reached the plan's max_chats_per_day
DailyLimitReached == db.chat_count >= MaxChats(env.plan_data)

C25_LimitRefusalChangesNothing ==
    [][(/\ now' = now + 1
        /\ last'.kind = "chat"
        /\ last'.reply.body = "limit_reached"
        /\ Len(db.chat_sessions) > 0) =>
           /\ last'.reply.processed = NotProcessed
           /\ db'.chat_sessions = db.chat_sessions
           /\ db'.chat_messages = db.chat_messages
           /\ db'.chat_count = db.chat_count
      ]_vars

\* C25 witness: a message naming symptoms was refused on a session that had
\* used up its answers
C25_Witness ==
    /\ last.kind = "chat"
    /\ last.reply.body = "limit_reached"
    /\ Len(extract_symptoms(Strip(last.message), kwOrder[1])) > 0
    /\ db.chat_sessions[last.reply.session_id].bot_response_count
           = env.plan_data.max_bot_responses_per_chat
    /\ Len(db.chat_messages) > 0

----------------------------------------------------------------------------
(* switch_plan and switch_language requests in any order, under SpecSwitch *)

\* POST /switch_plan
SwitchPlan(new_plan) ==
    /\ LET switched == switch_plan(user, subscription_plans, new_plan)
       IN  /\ user' = switched.user
           /\ last' = [kind |-> "switch_plan", message |-> new_plan,
                       reply |-> switched.reply]
    /\ UNCHANGED <<matcherVars, db, env, now, failures, reqs, localized,
                   subscription_plans, replied>>

\* POST /switch_language
SwitchLanguage(new_language) ==
    /\ LET switched == switch_language(user, subscription_plans, new_language)
       IN  /\ user' = switched.user
           /\ last' = [kind |-> "switch_language", message |-> new_language,
                       reply |-> switched.reply]
    /\ UNCHANGED <<matcherVars, db, env, now, failures, reqs, localized,
                   subscription_plans, replied>>

\* a new user, on every table of plans
InitSwitch ==
    /\ Constructed(AppCorpus)
    /\ kwOrder = [r \in Runs |-> SomeOrder(symptom_keywords)]
    /\ MatcherIdle
    /\ looked = PendingLookup("")
    /\ calls = NoCalls
    /\ RequestsIdle
    /\ localized = NotLocalized
    /\ user = NewUser
    /\ subscription_plans \in PlanTables
    /\ replied = NotReplied

NextSwitch ==
    \/ \E new_plan \in RequestedPlans : SwitchPlan(new_plan)
    \/ \E new_language \in RequestedLanguages : SwitchLanguage(new_language)

SpecSwitch == InitSwitch /\ [][NextSwitch]_vars

\* C26 as stated: in every state reached by switch_plan and switch_language
\* requests the user's stored language is one of the languages available in
\* the user's current plan.
C26_LanguageAvailableInPlan ==
    InList(user.language, get_available_languages(subscription_plans, user.plan))

============================================================================
